---------------------------- MODULE Spec2Model ----------------------------
(***************************************************************************)
(* Model of the retirement withdrawal simulator of src/investment.py:      *)
(* the tax functions, simulate_investment, simulate_average_simulation and *)
(* run_monte_carlo.                                                        *)
(*                                                                         *)
(* Number representation.  The program computes in binary floating point.  *)
(* The model computes in fixed point:                                      *)
(*   - money is an integer number of pence (1 pound = 100);                *)
(*   - rates and returns are integer basis points (1.0 = RATE_DEN);        *)
(*   - a product x * rate is MulDiv(x, rate, RATE_DEN), rounded down.      *)
(* Dates are month numbers: start_date + relativedelta(months=m) is        *)
(* start_date + m.  Python's None is the empty tuple and a present value x *)
(* is <<x>>.                                                               *)
(***************************************************************************)
EXTENDS Integers, Sequences, FiniteSets, TLC

VARIABLES
    \* the invocation: entry point, its arguments, position, outcome
    op, p, pc, outcome, result,
    \* locals of simulate_investment (lines 88-101 and the loop variable)
    m, total_months, monthly_mean_return, monthly_std,
    portfolio_value, start_withdrawal_date, withdrawing, total_withdrawn,
    dates_list, portfolio_values, withdrawal_values, current_monthly_deposit,
    \* observations of the run in progress: the samples random.gauss returned,
    \* the portfolio value right after line 140 of each period, and the factor
    \* and cutoffs line 115 obtained in each period
    samples, pre_withdrawal_values, brackets_used,
    \* and the inflated_annual_cost line 111 computed in each period
    living_costs,
    \* locals of simulate_average_simulation and run_monte_carlo
    sim, success_count, aggregated_portfolio, aggregated_withdrawal, dates,
    \* what every finished call of simulate_investment returned, and the
    \* number of samples of this invocation that were off the mean
    runs, shocks,
    \* one call of required_gross_annual_for_net_annual, iteration by iteration
    net_annual, pa, brt, hrt, low, high, iter, bpc, probes

invVars == <<op, p, pc, outcome, result>>
runVars == <<m, total_months, monthly_mean_return, monthly_std,
             portfolio_value, start_withdrawal_date, withdrawing,
             total_withdrawn, dates_list, portfolio_values, withdrawal_values,
             current_monthly_deposit, samples, pre_withdrawal_values,
             brackets_used, living_costs>>
drvVars == <<sim, success_count, aggregated_portfolio, aggregated_withdrawal,
             dates, runs, shocks>>
taxVars == <<net_annual, pa, brt, hrt, low, high, iter, bpc, probes>>
vars == <<invVars, runVars, drvVars, taxVars>>

---------------------------------------------------------------------------
\* Bounds of the model.

\* num_simulations ranges over -1 .. MaxSims
MaxSims == 2
\* at most MaxShocks samples of one invocation differ from the mean
MaxShocks == 1
\* the bisection is explored for net targets k * 50000 pounds, k in 0..MaxNetK
MaxNetK == 20

---------------------------------------------------------------------------
\* Arithmetic.

RATE_DEN == 10000

Max(a, b) == IF a >= b THEN a ELSE b
Min(a, b) == IF a <= b THEN a ELSE b

\* floor(x * num / den) for den > 0, computed without leaving 32 bits
MulDiv(x, num, den) == (x \div den) * num + ((x % den) * num) \div den

\* x * rate, rate in basis points
MulRate(x, rate) == MulDiv(x, rate, RATE_DEN)

\* a / b rounded down; b # 0
Divide(a, b) == IF b > 0 THEN a \div b ELSE (0 - a) \div (0 - b)

\* base ** n for a fixed-point base and an integer n >= 0
RECURSIVE PowRate(_, _)
PowRate(base, n) == IF n <= 0 THEN RATE_DEN ELSE MulRate(PowRate(base, n - 1), base)

\* x ** (1/12) for a fixed-point x >= 1.0: the largest r with r ** 12 <= x
Root12(x) ==
    CHOOSE r \in RATE_DEN .. RATE_DEN + 1000 :
        PowRate(r, 12) <= x /\ PowRate(r + 1, 12) > x

\* 12 ** 0.5 in fixed point
SQRT12 == 34641

None == << >>
Some(x) == <<x>>

---------------------------------------------------------------------------
\* 1) Tax functions (lines 12-56).

BASE_PERSONAL_ALLOWANCE == 1257000
BASE_BASIC_RATE_LIMIT == 5027000
BASE_HIGHER_RATE_LIMIT == 12514000

BASIC_RATE == 2000
HIGHER_RATE == 4000
ADDITIONAL_RATE == 4500

\* calc_tax_annual taxing the basic portion from 0 instead of from pa
calc_tax_annual_NoAllowance(gross, c_pa, c_brt, c_hrt) ==
    IF gross <= 0 THEN 0
    ELSE IF gross <= c_pa THEN 0
    ELSE LET basic_portion == Max(0, Min(gross, c_brt))
             higher_portion ==
                 IF gross > c_brt THEN Max(0, Min(gross, c_hrt) - c_brt) ELSE 0
             additional_portion ==
                 IF gross > c_hrt THEN Max(0, gross - c_hrt) ELSE 0
         IN  MulRate(basic_portion, BASIC_RATE)
             + MulRate(higher_portion, HIGHER_RATE)
             + MulRate(additional_portion, ADDITIONAL_RATE)

calc_tax_annual(gross, c_pa, c_brt, c_hrt) ==
    IF gross <= 0 THEN 0
    ELSE IF gross <= c_pa THEN 0
    ELSE LET basic_portion == Max(0, Min(gross, c_brt) - c_pa)
             higher_portion ==
                 IF gross > c_brt THEN Max(0, Min(gross, c_hrt) - c_brt) ELSE 0
             additional_portion ==
                 IF gross > c_hrt THEN Max(0, gross - c_hrt) ELSE 0
         IN  MulRate(basic_portion, BASIC_RATE)
             + MulRate(higher_portion, HIGHER_RATE)
             + MulRate(additional_portion, ADDITIONAL_RATE)

calc_net_annual(gross, c_pa, c_brt, c_hrt) ==
    gross - calc_tax_annual(gross, c_pa, c_brt, c_hrt)

\* the ceiling of the search and its number of iterations
GROSS_CEILING == 200000000
BISECTION_ITERATIONS == 50

\* line 39
Mid(b_low, b_high) == (b_low + b_high) \div 2

\* NetTooLow with <= for the < of line 40
NetTooLow_OrEqual(mid, b_net, c_pa, c_brt, c_hrt) ==
    calc_net_annual(mid, c_pa, c_brt, c_hrt) <= b_net

\* line 40: the test of the loop body
NetTooLow(mid, b_net, c_pa, c_brt, c_hrt) ==
    calc_net_annual(mid, c_pa, c_brt, c_hrt) < b_net

\* BisectStep with the branches of lines 40-43 exchanged
BisectStep_Exchanged(b_low, b_high, b_net, c_pa, c_brt, c_hrt) ==
    IF NetTooLow(Mid(b_low, b_high), b_net, c_pa, c_brt, c_hrt)
    THEN <<b_low, Mid(b_low, b_high)>>
    ELSE <<Mid(b_low, b_high), b_high>>

\* one iteration of the loop body, lines 39-43: the new <<low, high>>
BisectStep(b_low, b_high, b_net, c_pa, c_brt, c_hrt) ==
    IF NetTooLow(Mid(b_low, b_high), b_net, c_pa, c_brt, c_hrt)
    THEN <<Mid(b_low, b_high), b_high>>
    ELSE <<b_low, Mid(b_low, b_high)>>

\* lines 38-44: n iterations from <<low, high>>, then the value returned
RECURSIVE Bisect(_, _, _, _, _, _, _)
Bisect(n, b_low, b_high, b_net, c_pa, c_brt, c_hrt) ==
    IF n = 0 THEN b_high
    ELSE IF NetTooLow(Mid(b_low, b_high), b_net, c_pa, c_brt, c_hrt)
         THEN Bisect(n - 1, Mid(b_low, b_high), b_high, b_net, c_pa, c_brt, c_hrt)
         ELSE Bisect(n - 1, b_low, Mid(b_low, b_high), b_net, c_pa, c_brt, c_hrt)

required_gross_annual_for_net_annual(b_net, c_pa, c_brt, c_hrt) ==
    IF b_net <= 0 THEN 0
    ELSE Bisect(BISECTION_ITERATIONS, 0, GROSS_CEILING, b_net, c_pa, c_brt, c_hrt)

\* BracketFactor re-indexing every year instead of every five years
BracketFactor_Yearly(year, annual_inflation_rate) ==
    PowRate(RATE_DEN + annual_inflation_rate, year)

\* lines 51-52
BracketFactor(year, annual_inflation_rate) ==
    LET inflation_periods == year \div 5
    IN  PowRate(RATE_DEN + annual_inflation_rate, 5 * inflation_periods)

get_tax_brackets_for_year(year, annual_inflation_rate) ==
    LET factor == BracketFactor(year, annual_inflation_rate)
    IN  <<MulRate(BASE_PERSONAL_ALLOWANCE, factor),
          MulRate(BASE_BASIC_RATE_LIMIT, factor),
          MulRate(BASE_HIGHER_RATE_LIMIT, factor)>>

---------------------------------------------------------------------------
\* 2) One period of simulate_investment (the loop body, lines 103-165).

\* line 111: the living cost of the simulation year, before division by 12
InflatedAnnualCost(target_annual_living_cost, annual_inflation_rate, current_year) ==
    MulRate(target_annual_living_cost,
            PowRate(RATE_DEN + annual_inflation_rate, current_year))

\* lines 115-116
GrossNeededPerMonth(inflated_annual_cost, current_year, annual_inflation_rate) ==
    LET b == get_tax_brackets_for_year(current_year, annual_inflation_rate)
    IN  required_gross_annual_for_net_annual(inflated_annual_cost, b[1], b[2], b[3]) \div 12

\* RetirementTest deciding anew in every period (the guard of line 125 dropped)
RetirementTest_Redecided(w, swd, pv, gross_needed_per_month, current_date) ==
    IF pv >= gross_needed_per_month
    THEN <<TRUE, Some(current_date)>>
    ELSE <<FALSE, swd>>

\* RetirementTest with > for the >= of line 127
RetirementTest_Strict(w, swd, pv, gross_needed_per_month, current_date) ==
    IF ~w
    THEN IF pv > gross_needed_per_month
         THEN <<TRUE, Some(current_date)>>
         ELSE <<w, swd>>
    ELSE <<w, swd>>

\* RetirementTest asking for a year of withdrawals instead of a month
RetirementTest_AnnualNeed(w, swd, pv, gross_needed_per_month, current_date) ==
    IF ~w
    THEN IF pv >= 12 * gross_needed_per_month
         THEN <<TRUE, Some(current_date)>>
         ELSE <<w, swd>>
    ELSE <<w, swd>>

\* lines 125-129: the new <<withdrawing, start_withdrawal_date>>
RetirementTest(w, swd, pv, gross_needed_per_month, current_date) ==
    IF ~w
    THEN IF pv >= gross_needed_per_month
         THEN <<TRUE, Some(current_date)>>
         ELSE <<w, swd>>
    ELSE <<w, swd>>

\* Deposit adding the deposit in every period, retired or not
Deposit_Always(pv, deposit, w) == pv + deposit

\* lines 132-133: the portfolio after the deposit step
Deposit(pv, deposit, w) ==
    IF ~w THEN pv + deposit ELSE pv

\* lines 132-136: the deposit amount after the deposit step
GrowDeposit(deposit, deposit_growth_rate, month, w) ==
    IF ~w
    THEN IF month > 0 THEN MulRate(deposit, RATE_DEN + deposit_growth_rate) ELSE deposit
    ELSE deposit

\* random.gauss(mu, sigma): mu + z * sigma for a standard normal draw z;
\* the model draws z from ZValues
ZValues == {-3, 0, 1}
Gauss(mu, sigma, z) == mu + z * sigma

\* CurrentMonthReturn with the arguments of random.gauss swapped
CurrentMonthReturn_Swapped(mean, std, z) == Gauss(std, mean, z)

\* line 139
CurrentMonthReturn(mean, std, z) == Gauss(mean, std, z)

\* ApplyReturn multiplying by the return instead of by 1 + the return
ApplyReturn_NoOne(pv, current_month_return) ==
    MulRate(pv, current_month_return)

\* line 140
ApplyReturn(pv, current_month_return) ==
    MulRate(pv, RATE_DEN + current_month_return)

\* WithdrawalAmt without the test of line 144
WithdrawalAmt_Unchecked(w, pv, gross_needed_per_month) ==
    IF w THEN gross_needed_per_month ELSE 0

\* WithdrawalAmt paying the full amount out of any positive balance
WithdrawalAmt_WhenPositive(w, pv, gross_needed_per_month) ==
    IF w
    THEN IF pv > 0 THEN gross_needed_per_month ELSE 0
    ELSE 0

\* WithdrawalAmt paying out what is left when the balance is short
WithdrawalAmt_Partial(w, pv, gross_needed_per_month) ==
    IF w THEN Min(gross_needed_per_month, Max(0, pv)) ELSE 0

\* lines 143-158
WithdrawalAmt(w, pv, gross_needed_per_month) ==
    IF w
    THEN IF pv >= gross_needed_per_month
         THEN Min(gross_needed_per_month, pv)
         ELSE 0
    ELSE 0

---------------------------------------------------------------------------
\* 3) Arguments.

Ops == {"simulate_investment", "simulate_average_simulation", "run_monte_carlo"}
AggregateOps == {"simulate_average_simulation", "run_monte_carlo"}

Params(initial, monthly, growth, return, inflation, wrate, target, years, vol) ==
    [initial_deposit |-> initial, monthly_deposit |-> monthly,
     deposit_growth_rate |-> growth, annual_return_rate |-> return,
     annual_inflation_rate |-> inflation, annual_withdrawal_rate |-> wrate,
     target_annual_living_cost |-> target, years |-> years,
     annual_volatility |-> vol, start_date |-> 24310]

\* The argument sets explored (pence, basis points, years).
Scenarios ==
    { \* the spec's literal scenario: 1000 + 100 a month, 30000 a year, no volatility
      Params(100000, 10000, 10, 1480, 480, 400, 3000000, 1, 0),
      \* the same over six years, so that a bracket re-indexing is crossed
      Params(100000, 10000, 10, 1480, 480, 400, 3000000, 6, 0),
      \* rich enough to retire in period 0, very volatile
      Params(300000, 10000, 10, 1480, 480, 400, 3000000, 1, 12000),
      \* rich enough to retire in period 0, default volatility: a bad first
      \* month suspends the withdrawals until the returns have made up for it
      Params(300000, 10000, 10, 1480, 480, 400, 3000000, 1, 1500),
      \* retires during the first year, default volatility
      Params(100000, 10000, 10, 1480, 480, 400, 1500000, 1, 1500),
      \* no living cost, nothing to start with
      Params(0, 10000, 10, 1480, 480, 400, 0, 1, 1500),
      \* no periods at all
      Params(100000, 10000, 10, 1480, 480, 400, 3000000, 0, 1500),
      \* negative years
      Params(100000, 10000, 10, 1480, 480, 400, 3000000, -1, 1500) }

NumSimulations == -1 .. MaxSims

\* The values lines 111-116 compute in a period depend on the arguments and on
\* the simulation year only, and line 89 on annual_return_rate only: they are
\* tabulated once over the arguments of Scenarios.
GrossNeededTable ==
    [k \in UNION { {<<s.target_annual_living_cost, s.annual_inflation_rate, y>> :
                      y \in 0 .. s.years - 1} : s \in Scenarios } |->
        GrossNeededPerMonth(InflatedAnnualCost(k[1], k[2], k[3]), k[3], k[2])]

\* NeededFor scaled by the annual_withdrawal_rate argument
NeededFor_ScaledByRate(params, current_year) ==
    MulRate(GrossNeededTable[<<params.target_annual_living_cost,
                               params.annual_inflation_rate, current_year>>],
            RATE_DEN + params.annual_withdrawal_rate)

\* lines 111-116 for the arguments params: gross_needed_per_month
NeededFor(params, current_year) ==
    GrossNeededTable[<<params.target_annual_living_cost,
                       params.annual_inflation_rate, current_year>>]

MonthlyMeanReturnTable ==
    [r \in {s.annual_return_rate : s \in Scenarios} |->
        Root12(RATE_DEN + r) - RATE_DEN]

---------------------------------------------------------------------------
\* 4) The state machine.

TaxIdle ==
    /\ net_annual = 0 /\ pa = 0 /\ brt = 0 /\ hrt = 0
    /\ low = 0 /\ high = 0 /\ iter = 0 /\ bpc = "idle" /\ probes = << >>

\* the locals of simulate_investment before any call
RunIdle ==
    /\ m = 0 /\ total_months = 0
    /\ monthly_mean_return = 0 /\ monthly_std = 0
    /\ portfolio_value = 0 /\ start_withdrawal_date = None
    /\ withdrawing = FALSE /\ total_withdrawn = 0
    /\ dates_list = << >> /\ portfolio_values = << >> /\ withdrawal_values = << >>
    /\ current_monthly_deposit = 0
    /\ samples = << >> /\ pre_withdrawal_values = << >>
    /\ brackets_used = << >>
    /\ living_costs = << >>

\* An entry point has been called with its arguments; the aggregate entry
\* points have run their first lines (186-189, 272).
Init ==
    /\ op \in Ops
    /\ \E s \in Scenarios, n \in NumSimulations :
          /\ op = "simulate_investment" => n = 1
          /\ p = s @@ [num_simulations |-> n]
    /\ pc = "driver"
    /\ outcome = "running"
    /\ result = [kind |-> "none"]
    /\ RunIdle
    /\ sim = 0
    /\ success_count = 0
    /\ aggregated_portfolio =
           IF op = "simulate_average_simulation"
           THEN [i \in 1 .. p.years * 12 |-> 0] ELSE << >>
    /\ aggregated_withdrawal =
           IF op = "simulate_average_simulation"
           THEN [i \in 1 .. p.years * 12 |-> 0] ELSE << >>
    /\ dates = None
    /\ runs = << >>
    /\ shocks = 0
    /\ TaxIdle

\* Call keeping the deposit amount the previous call ended with
Call_KeepsDeposit ==
    /\ pc = "driver"
    /\ IF op = "simulate_investment" THEN sim = 0 ELSE sim < p.num_simulations
    /\ pc' = "loop"
    /\ total_months' = p.years * 12
    /\ monthly_mean_return' = MonthlyMeanReturnTable[p.annual_return_rate]
    /\ monthly_std' = (p.annual_volatility * RATE_DEN) \div SQRT12
    /\ portfolio_value' = p.initial_deposit
    /\ start_withdrawal_date' = None
    /\ withdrawing' = FALSE
    /\ total_withdrawn' = 0
    /\ dates_list' = << >>
    /\ portfolio_values' = << >>
    /\ withdrawal_values' = << >>
    /\ current_monthly_deposit' =
           IF sim = 0 THEN p.monthly_deposit ELSE current_monthly_deposit
    /\ m' = 0
    /\ samples' = << >>
    /\ pre_withdrawal_values' = << >>
    /\ brackets_used' = << >>
    /\ living_costs' = << >>
    /\ UNCHANGED <<op, p, outcome, result, drvVars, taxVars>>

\* lines 88-101: simulate_investment is entered (from the caller, or from the
\* loop of an aggregate entry point, lines 191 and 273)
Call ==
    /\ pc = "driver"
    /\ IF op = "simulate_investment" THEN sim = 0 ELSE sim < p.num_simulations
    /\ pc' = "loop"
    /\ total_months' = p.years * 12
    /\ monthly_mean_return' = MonthlyMeanReturnTable[p.annual_return_rate]
    /\ monthly_std' = (p.annual_volatility * RATE_DEN) \div SQRT12
    /\ portfolio_value' = p.initial_deposit
    /\ start_withdrawal_date' = None
    /\ withdrawing' = FALSE
    /\ total_withdrawn' = 0
    /\ dates_list' = << >>
    /\ portfolio_values' = << >>
    /\ withdrawal_values' = << >>
    /\ current_monthly_deposit' = p.monthly_deposit
    /\ m' = 0
    /\ samples' = << >>
    /\ pre_withdrawal_values' = << >>
    /\ brackets_used' = << >>
    /\ living_costs' = << >>
    /\ UNCHANGED <<op, p, outcome, result, drvVars, taxVars>>

\* LoopContinues stopping one period early
LoopContinues_OneLess(month, months) == month < months - 1

\* line 103: for m in range(total_months) has another iteration to run
LoopContinues(month, months) == month < months

\* lines 125-158 for one period: the retirement test, the deposit, the return
\* current_month_return and the withdrawal, in the order of the code
Period(w, swd, pv, deposit, gross_needed_per_month, current_date, month, deposit_growth_rate, current_month_return) ==
    LET rt == RetirementTest(w, swd, pv, gross_needed_per_month, current_date)
        after_deposit == Deposit(pv, deposit, rt[1])
        after_return == ApplyReturn(after_deposit, current_month_return)
        withdrawal_amt == WithdrawalAmt(rt[1], after_return, gross_needed_per_month)
    IN  [withdrawing |-> rt[1],
         start_withdrawal_date |-> rt[2],
         current_monthly_deposit |->
             GrowDeposit(deposit, deposit_growth_rate, month, rt[1]),
         after_return |-> after_return,
         withdrawal_amt |-> withdrawal_amt,
         portfolio_value |-> after_return - withdrawal_amt]

\* lines 103-165: one iteration of the loop, with the sample random.gauss returns
MonthStep ==
    /\ pc = "loop"
    /\ LoopContinues(m, total_months)
    /\ LET current_date == p.start_date + m
           current_year == m \div 12
           gross_needed_per_month == NeededFor(p, current_year)
       IN  \E z \in ZValues :
             LET current_month_return ==
                     CurrentMonthReturn(monthly_mean_return, monthly_std, z)
                 shock == current_month_return # monthly_mean_return
                 nxt == Period(withdrawing, start_withdrawal_date, portfolio_value,
                               current_monthly_deposit, gross_needed_per_month,
                               current_date, m, p.deposit_growth_rate,
                               current_month_return)
             IN  /\ shock => shocks < MaxShocks
                 /\ shocks' = IF shock THEN shocks + 1 ELSE shocks
                 /\ withdrawing' = nxt.withdrawing
                 /\ start_withdrawal_date' = nxt.start_withdrawal_date
                 /\ current_monthly_deposit' = nxt.current_monthly_deposit
                 /\ portfolio_value' = nxt.portfolio_value
                 /\ total_withdrawn' = total_withdrawn + nxt.withdrawal_amt
                 /\ dates_list' = Append(dates_list, current_date)
                 /\ portfolio_values' = Append(portfolio_values, nxt.portfolio_value)
                 /\ withdrawal_values' = Append(withdrawal_values, nxt.withdrawal_amt)
                 /\ samples' = Append(samples, current_month_return)
                 /\ pre_withdrawal_values' =
                        Append(pre_withdrawal_values, nxt.after_return)
                 /\ living_costs' =
                        Append(living_costs,
                               InflatedAnnualCost(p.target_annual_living_cost,
                                                  p.annual_inflation_rate,
                                                  current_year))
                 /\ brackets_used' =
                        Append(brackets_used,
                               [factor |-> BracketFactor(current_year,
                                                         p.annual_inflation_rate),
                                cutoffs |-> get_tax_brackets_for_year(
                                                current_year, p.annual_inflation_rate)])
    /\ m' = m + 1
    /\ UNCHANGED <<invVars, total_months, monthly_mean_return, monthly_std,
                   sim, success_count, aggregated_portfolio,
                   aggregated_withdrawal, dates, runs, taxVars>>

\* lines 92-101: the locals a call starts with, for the arguments params
InitialLocals(params) ==
    [withdrawing |-> FALSE, start_withdrawal_date |-> None,
     portfolio_value |-> params.initial_deposit,
     current_monthly_deposit |-> params.monthly_deposit,
     total_withdrawn |-> 0,
     dates_list |-> << >>, portfolio_values |-> << >>, withdrawal_values |-> << >>]

\* lines 103-167: the loop from period month on, random.gauss returning
\* smp[month + 1], smp[month + 2], ...; then the tuple returned
RECURSIVE SimulatePeriods(_, _, _, _)
SimulatePeriods(params, smp, month, st) ==
    IF ~LoopContinues(month, params.years * 12)
    THEN [dates_list |-> st.dates_list, portfolio_values |-> st.portfolio_values,
          withdrawal_values |-> st.withdrawal_values,
          start_withdrawal_date |-> st.start_withdrawal_date,
          total_withdrawn |-> st.total_withdrawn]
    ELSE LET nxt == Period(st.withdrawing, st.start_withdrawal_date,
                           st.portfolio_value, st.current_monthly_deposit,
                           NeededFor(params, month \div 12),
                           params.start_date + month, month,
                           params.deposit_growth_rate, smp[month + 1])
         IN  SimulatePeriods(params, smp, month + 1,
                 [withdrawing |-> nxt.withdrawing,
                  start_withdrawal_date |-> nxt.start_withdrawal_date,
                  portfolio_value |-> nxt.portfolio_value,
                  current_monthly_deposit |-> nxt.current_monthly_deposit,
                  total_withdrawn |-> st.total_withdrawn + nxt.withdrawal_amt,
                  dates_list |-> Append(st.dates_list, params.start_date + month),
                  portfolio_values |->
                      Append(st.portfolio_values, nxt.portfolio_value),
                  withdrawal_values |->
                      Append(st.withdrawal_values, nxt.withdrawal_amt)])

\* simulate_investment as a function of its arguments and of the samples
\* random.gauss returns to it
simulate_investment(params, smp) ==
    SimulatePeriods(params, smp, 0, InitialLocals(params))

\* what line 167 returns
Returned ==
    [dates_list |-> dates_list, portfolio_values |-> portfolio_values,
     withdrawal_values |-> withdrawal_values,
     start_withdrawal_date |-> start_withdrawal_date,
     total_withdrawn |-> total_withdrawn]

\* Success with >= for the > of line 287
Success_NonNegative(swd, portfolio_vals) ==
    swd # None /\ portfolio_vals[Len(portfolio_vals)] >= 0

\* line 287
Success(swd, portfolio_vals) ==
    swd # None /\ portfolio_vals[Len(portfolio_vals)] > 0

\* Accumulate keeping only the values of the latest run
Accumulate_Overwrites(aggregated, values, months) ==
    [i \in 1 .. months |-> values[i]]

\* lines 206-208: the running sums after one more run
Accumulate(aggregated, values, months) ==
    [i \in 1 .. months |-> aggregated[i] + values[i]]

\* line 167, and what the caller does with the returned tuple:
\* lines 204-208 (average), lines 286-288 (Monte Carlo)
Return ==
    /\ pc = "loop"
    /\ ~LoopContinues(m, total_months)
    /\ runs' = Append(runs, Returned @@ [samples |-> samples])
    /\ sim' = sim + 1
    /\ IF op = "simulate_investment"
       THEN /\ pc' = "done"
            /\ outcome' = "returned"
            /\ result' = [kind |-> "run"] @@ Returned
            /\ UNCHANGED <<success_count, aggregated_portfolio,
                           aggregated_withdrawal, dates>>
       ELSE /\ pc' = "driver"
            /\ UNCHANGED <<outcome, result>>
            /\ IF op = "simulate_average_simulation"
               THEN /\ dates' = IF dates = None THEN Some(dates_list) ELSE dates
                    /\ aggregated_portfolio' =
                           Accumulate(aggregated_portfolio, portfolio_values,
                                      total_months)
                    /\ aggregated_withdrawal' =
                           Accumulate(aggregated_withdrawal, withdrawal_values,
                                      total_months)
                    /\ UNCHANGED success_count
               ELSE /\ success_count' =
                           IF Success(start_withdrawal_date, portfolio_values)
                           THEN success_count + 1 ELSE success_count
                    /\ UNCHANGED <<aggregated_portfolio, aggregated_withdrawal, dates>>
    /\ UNCHANGED <<op, p, runVars, shocks, taxVars>>

\* lines 210-212 (average) and line 289 (Monte Carlo): the loop over the runs
\* is over; a division by a zero num_simulations raises ZeroDivisionError
Finish ==
    /\ pc = "driver"
    /\ op \in AggregateOps
    /\ sim >= p.num_simulations
    /\ pc' = "done"
    /\ IF op = "run_monte_carlo"
       THEN IF p.num_simulations = 0
            THEN /\ outcome' = "ZeroDivisionError"
                 /\ UNCHANGED result
            ELSE /\ outcome' = "returned"
                 /\ result' = [kind |-> "probability",
                               num |-> success_count * 100,
                               den |-> p.num_simulations]
       ELSE IF p.num_simulations = 0 /\ Len(aggregated_portfolio) > 0
            THEN /\ outcome' = "ZeroDivisionError"
                 /\ UNCHANGED result
            ELSE /\ outcome' = "returned"
                 /\ result' =
                        [kind |-> "average", dates |-> dates,
                         avg_portfolio |->
                             [i \in 1 .. Len(aggregated_portfolio) |->
                                 Divide(aggregated_portfolio[i], p.num_simulations)],
                         avg_withdrawal |->
                             [i \in 1 .. Len(aggregated_withdrawal) |->
                                 Divide(aggregated_withdrawal[i], p.num_simulations)]]
    /\ UNCHANGED <<op, p, runVars, drvVars, taxVars>>

Next == Call \/ MonthStep \/ Return \/ Finish

Spec == Init /\ [][Next]_vars

\* One call of simulate_investment alone.  The interpreter keeps executing
\* the call: a step that can be taken is taken.
InitRun == Init /\ op = "simulate_investment"

NextRun == Call \/ MonthStep \/ Return

SpecRun == InitRun /\ [][NextRun]_vars /\ WF_vars(NextRun)

---------------------------------------------------------------------------
\* 5) One call of required_gross_annual_for_net_annual, iteration by iteration.

\* the cutoffs the simulation passes (line 115), and degenerate ordered ones
BracketSets ==
    {get_tax_brackets_for_year(y, i) : y \in {0, 5, 10}, i \in {0, 480}}
    \cup {<<0, 0, 0>>, <<1257000, 1257000, 1257000>>}

\* net targets: a grid over [0, 1000000] pounds, the literal 40000, the nets
\* at the base cutoffs and next to them, and one no gross up to the ceiling nets
NetTargets ==
    {k * 5000000 : k \in 0 .. MaxNetK}
    \cup {-100, 1, 1256999, 1257000, 1257001, 4000000, 4273000, 4273001,
          8765200, 8765201, 150000000}

InitTax ==
    /\ op = "required_gross_annual_for_net_annual"
    /\ net_annual \in NetTargets
    /\ \E b \in BracketSets : pa = b[1] /\ brt = b[2] /\ hrt = b[3]
    /\ p = [net_annual |-> net_annual, pa |-> pa, brt |-> brt, hrt |-> hrt]
    /\ pc = "tax"
    /\ bpc = "call"
    /\ low = 0 /\ high = 0 /\ iter = 0 /\ probes = << >>
    /\ outcome = "running"
    /\ result = [kind |-> "none"]
    /\ RunIdle
    /\ sim = 0 /\ success_count = 0
    /\ aggregated_portfolio = << >> /\ aggregated_withdrawal = << >>
    /\ dates = None /\ runs = << >> /\ shocks = 0

\* lines 35-37
TaxCall ==
    /\ bpc = "call"
    /\ IF net_annual <= 0
       THEN /\ bpc' = "done"
            /\ outcome' = "returned"
            /\ result' = [kind |-> "gross", value |-> 0]
            /\ UNCHANGED <<low, high>>
       ELSE /\ bpc' = "loop"
            /\ low' = 0
            /\ high' = GROSS_CEILING
            /\ UNCHANGED <<outcome, result>>
    /\ UNCHANGED <<op, p, pc, runVars, drvVars, net_annual, pa, brt, hrt, iter, probes>>

\* lines 38-43: one iteration; probes records the gross tried and its net
TaxIterate ==
    /\ bpc = "loop"
    /\ iter < BISECTION_ITERATIONS
    /\ LET lh == BisectStep(low, high, net_annual, pa, brt, hrt)
       IN  /\ low' = lh[1]
           /\ high' = lh[2]
    /\ probes' = Append(probes, <<Mid(low, high),
                                  calc_net_annual(Mid(low, high), pa, brt, hrt)>>)
    /\ iter' = iter + 1
    /\ UNCHANGED <<invVars, runVars, drvVars, net_annual, pa, brt, hrt, bpc>>

\* TaxReturn returning low instead of high
TaxReturn_ReturnsLow ==
    /\ bpc = "loop"
    /\ iter >= BISECTION_ITERATIONS
    /\ bpc' = "done"
    /\ outcome' = "returned"
    /\ result' = [kind |-> "gross", value |-> low]
    /\ UNCHANGED <<op, p, pc, runVars, drvVars, net_annual, pa, brt, hrt,
                   low, high, iter, probes>>

\* line 44
TaxReturn ==
    /\ bpc = "loop"
    /\ iter >= BISECTION_ITERATIONS
    /\ bpc' = "done"
    /\ outcome' = "returned"
    /\ result' = [kind |-> "gross", value |-> high]
    /\ UNCHANGED <<op, p, pc, runVars, drvVars, net_annual, pa, brt, hrt,
                   low, high, iter, probes>>

NextTax == TaxCall \/ TaxIterate \/ TaxReturn

SpecTax == InitTax /\ [][NextTax]_vars

---------------------------------------------------------------------------
\* 6) Properties.

Last(q) == q[Len(q)]

\* a run in progress takes a step of its loop
PeriodStep == pc = "loop" /\ pc' = "loop"

\* C1: retirement is monotonic.  Within a run, once withdrawing is true it
\* stays true; start_withdrawal_date is None until the period that sets
\* withdrawing, is set to that period's date there, and never changes again.
C1_RetirementMonotone ==
    [][PeriodStep =>
         /\ withdrawing => (withdrawing' /\ start_withdrawal_date' = start_withdrawal_date)
         /\ (~withdrawing /\ withdrawing') =>
                (start_withdrawal_date = None
                 /\ start_withdrawal_date' = Some(p.start_date + m))
         /\ ~withdrawing' => start_withdrawal_date' = None]_vars

\* C1 witness: a retired run whose portfolio could not pay the last period
\* (so the retirement test would fail now), retired two or more periods ago
C1_Witness ==
    /\ pc = "loop" /\ withdrawing /\ Len(withdrawal_values) >= 3
    /\ Last(withdrawal_values) = 0
    /\ start_withdrawal_date = Some(p.start_date)

\* C2 as stated: in every period 0 <= withdrawal <= portfolio value right
\* before the withdrawal step (after the deposit and the return).
C2_WithdrawalWithinBalance ==
    \A i \in 1 .. Len(withdrawal_values) :
        0 <= withdrawal_values[i] /\ withdrawal_values[i] <= pre_withdrawal_values[i]

\* C2 amended: in every period the withdrawal is >= 0 and at most the
\* portfolio value right before the withdrawal step when that value is >= 0;
\* it is 0 when that value is negative.
C2_WithdrawalClamped ==
    \A i \in 1 .. Len(withdrawal_values) :
        /\ 0 <= withdrawal_values[i]
        /\ withdrawal_values[i] <= Max(0, pre_withdrawal_values[i])

\* C2 witness: a run that has withdrawn a positive amount and has later seen
\* a return below -100% make its balance negative
C2_Witness ==
    \E i, j \in 1 .. Len(withdrawal_values) :
        i < j /\ withdrawal_values[i] > 0 /\ pre_withdrawal_values[j] < 0

\* the runs of this invocation that retired and ended above zero
SuccessfulRuns ==
    {i \in 1 .. Len(runs) :
        /\ runs[i].start_withdrawal_date # None
        /\ Last(runs[i].portfolio_values) > 0}

\* C3: run_monte_carlo with N >= 1 returns exactly 100 * k / N, k the number
\* of runs that retired and whose last portfolio value is > 0.
C3_SuccessRate ==
    (op = "run_monte_carlo" /\ pc = "done" /\ p.num_simulations >= 1) =>
        /\ outcome = "returned"
        /\ result.kind = "probability"
        /\ Len(runs) = p.num_simulations
        /\ result.num * p.num_simulations
               = 100 * Cardinality(SuccessfulRuns) * result.den

\* C3 witness: two runs, one successful, one that retired and ended at or
\* below zero: 50 is returned
C3_Witness ==
    /\ op = "run_monte_carlo" /\ pc = "done" /\ p.num_simulations = 2
    /\ Cardinality(SuccessfulRuns) = 1
    /\ \E i \in 1 .. Len(runs) :
          /\ runs[i].start_withdrawal_date # None
          /\ Last(runs[i].portfolio_values) <= 0
    /\ result.num = 50 * result.den

\* the net of the gross the search may return at most
CeilingNet == calc_net_annual(GROSS_CEILING, pa, brt, hrt)

AbsDiff(a, b) == IF a >= b THEN a - b ELSE b - a

\* C4: for a net target in [0, 1000000] pounds that the ceiling gross can
\* net, the net of the returned gross is within 0.01 pounds of the target.
C4_RoundTrip ==
    (bpc = "done" /\ net_annual >= 0 /\ net_annual <= 100000000
       /\ net_annual <= CeilingNet) =>
        AbsDiff(calc_net_annual(result.value, pa, brt, hrt), net_annual) <= 1

\* C4 witness: the literal case, 40000 pounds net under the base cutoffs
C4_Witness ==
    /\ bpc = "done" /\ net_annual = 4000000
    /\ pa = BASE_PERSONAL_ALLOWANCE /\ brt = BASE_BASIC_RATE_LIMIT
    /\ hrt = BASE_HIGHER_RATE_LIMIT
    /\ Len(probes) = BISECTION_ITERATIONS
    /\ result.value > net_annual

\* the gross values the search tried with their nets, and the nets at and
\* next to the cutoffs, at 0 and at the ceiling
NetPoints ==
    {probes[i] : i \in 1 .. Len(probes)}
    \cup {<<g, calc_net_annual(g, pa, brt, hrt)>> :
            g \in {0, 1, pa - 1, pa, pa + 1, brt - 1, brt, brt + 1,
                   hrt - 1, hrt, hrt + 1, GROSS_CEILING} \cap (0 .. GROSS_CEILING)}

\* C5: net is monotonic: for 0 <= g1 < g2 and ordered cutoffs,
\* calc_net_annual(g1) <= calc_net_annual(g2).
C5_NetMonotone ==
    (0 <= pa /\ pa <= brt /\ brt <= hrt) =>
        \A a, b \in NetPoints : a[1] < b[1] => a[2] <= b[2]

\* C5 witness: a finished search that tried gross values in all four bands
C5_Witness ==
    /\ bpc = "done" /\ 0 < pa /\ pa < brt /\ brt < hrt
    /\ \E a, b, c, d \in NetPoints :
          /\ 0 < a[1] /\ a[1] < pa /\ pa < b[1] /\ b[1] < brt
          /\ brt < c[1] /\ c[1] < hrt /\ hrt < d[1]
          /\ a[2] < b[2] /\ b[2] < c[2] /\ c[2] < d[2]

\* C6: with annual_volatility = 0 all runs of an aggregate entry point have
\* the same trajectory, and run_monte_carlo returns exactly 0 or exactly 100.
C6_ZeroVolatility ==
    (op \in AggregateOps /\ p.annual_volatility = 0) =>
        /\ \A i, j \in 1 .. Len(runs) :
              /\ runs[i].portfolio_values = runs[j].portfolio_values
              /\ runs[i].withdrawal_values = runs[j].withdrawal_values
              /\ runs[i].start_withdrawal_date = runs[j].start_withdrawal_date
        /\ (op = "run_monte_carlo" /\ pc = "done" /\ p.num_simulations >= 1) =>
              /\ outcome = "returned"
              /\ result.num = 0 \/ result.num = 100 * result.den

\* C6 witness: two runs without volatility that both retire: 100 is returned
C6_Witness ==
    /\ op = "run_monte_carlo" /\ pc = "done" /\ p.annual_volatility = 0
    /\ Len(runs) = 2
    /\ runs[1].start_withdrawal_date # None
    /\ runs[1].total_withdrawn > 0
    /\ result.num = 100 * result.den

\* C7: two runs with the same arguments and the same samples return the same
\* dates, portfolio values, withdrawals, retirement date and total withdrawn.
C7_DeterministicReplay ==
    \A i, j \in 1 .. Len(runs) :
        runs[i].samples = runs[j].samples => runs[i] = runs[j]

\* C7 witness: two volatile twelve-period runs on the same samples that
\* deposited, retired and withdrew
C7_Witness ==
    /\ Len(runs) = 2 /\ p.annual_volatility > 0
    /\ Len(runs[1].samples) = 12
    /\ runs[1].samples = runs[2].samples
    /\ runs[2].start_withdrawal_date # None
    /\ runs[2].start_withdrawal_date # Some(p.start_date)
    /\ runs[2].total_withdrawn > 0

\* C8: with target_annual_living_cost = 0 and initial_deposit >= 0 the run
\* retires in period 0: the retirement date is start_date and withdrawal[0] >= 0.
C8_ZeroLivingCost ==
    (p.target_annual_living_cost = 0 /\ p.initial_deposit >= 0) =>
        /\ Len(withdrawal_values) >= 1 =>
              /\ withdrawing
              /\ start_withdrawal_date = Some(p.start_date)
              /\ withdrawal_values[1] >= 0
        /\ \A i \in 1 .. Len(runs) :
              Len(runs[i].withdrawal_values) >= 1 =>
                  /\ runs[i].start_withdrawal_date = Some(p.start_date)
                  /\ runs[i].withdrawal_values[1] >= 0

\* C8 witness: a returned twelve-period run without living cost
C8_Witness ==
    /\ p.target_annual_living_cost = 0 /\ p.initial_deposit >= 0
    /\ pc = "done" /\ outcome = "returned"
    /\ Len(runs) >= 1 /\ Len(runs[1].withdrawal_values) = 12
    /\ runs[1].start_withdrawal_date = Some(p.start_date)

\* the required monthly gross withdrawal of period 0
GrossNeededAtStart ==
    GrossNeededTable[<<p.target_annual_living_cost, p.annual_inflation_rate, 0>>]

\* C9: when the initial deposit is below the required monthly gross
\* withdrawal the run does not retire in period 0, the value recorded for
\* month 0 is (initial_deposit + monthly_deposit) * (1 + r0) for the month-0
\* sample r0 (the monthly mean without volatility), and withdrawal[0] = 0.
C9_FirstPeriod ==
    (Len(portfolio_values) >= 1 /\ p.initial_deposit < GrossNeededAtStart) =>
        /\ start_withdrawal_date # Some(p.start_date)
        /\ portfolio_values[1] =
               MulRate(p.initial_deposit + p.monthly_deposit, RATE_DEN + samples[1])
        /\ withdrawal_values[1] = 0
        /\ p.annual_volatility = 0 => samples[1] = monthly_mean_return

\* C9 witness: the literal scenario, 1000 + 100 at 14.8% a year
C9_Witness ==
    /\ Len(portfolio_values) >= 1
    /\ p.initial_deposit = 100000 /\ p.monthly_deposit = 10000
    /\ p.target_annual_living_cost = 3000000 /\ p.annual_volatility = 0
    /\ p.annual_return_rate = 1480
    /\ p.initial_deposit < GrossNeededAtStart
    /\ portfolio_values[1] = MulRate(110000, RATE_DEN + monthly_mean_return)
    /\ portfolio_values[1] > 110000

InvalidParameters ==
    p.years < 0 \/ (op \in AggregateOps /\ p.num_simulations <= 0)

\* C10: with negative years or a non-positive run count the call ends in an
\* InvalidParameter error, no period is simulated and no result is returned.
C10_InvalidRejected ==
    InvalidParameters =>
        /\ Len(portfolio_values) = 0
        /\ result.kind = "none"
        /\ pc = "done" => outcome = "InvalidParameter"

\* the sequences of a run are those of its first n periods, in order
RecordedPeriods(r_dates, r_portfolio, r_withdrawal, n) ==
    /\ Len(r_dates) = n /\ Len(r_portfolio) = n /\ Len(r_withdrawal) = n
    /\ \A i \in 1 .. n : r_dates[i] = p.start_date + (i - 1)

\* C11: a run of simulate_investment with years >= 0 terminates after
\* exactly years * 12 periods: a run in its loop has recorded one entry per
\* period so far, in order, it leaves the loop, and the sequences it returns
\* have length years * 12, entry m being that of period m.
C11_TerminatesAfterAllPeriods ==
    /\ [](p.years >= 0 =>
            /\ pc = "loop" =>
                  /\ m <= p.years * 12
                  /\ RecordedPeriods(dates_list, portfolio_values, withdrawal_values, m)
            /\ \A i \in 1 .. Len(runs) :
                  RecordedPeriods(runs[i].dates_list, runs[i].portfolio_values,
                                  runs[i].withdrawal_values, p.years * 12))
    /\ (p.years >= 0 /\ pc = "loop") ~> (pc = "done" /\ outcome = "returned")

\* C11 witness: a six-year run has returned its 72 periods
C11_Witness ==
    /\ op = "simulate_investment" /\ pc = "done" /\ p.years = 6
    /\ Len(result.dates_list) = 72
    /\ result.dates_list[72] = p.start_date + 71

\* C12 as stated: the search performs 50 iterations for every input, and a
\* net target above the net of the ceiling gross returns exactly the ceiling.
C12_FiftyIterationsAlways ==
    bpc = "done" =>
        /\ iter = BISECTION_ITERATIONS
        /\ net_annual > CeilingNet =>
              (outcome = "returned" /\ result.value = GROSS_CEILING)

\* C12 amended: the search never exceeds 50 iterations; it performs exactly
\* 50 for a net target > 0 and none for a net target <= 0, for which 0 is
\* returned; a net target above the net of the ceiling gross returns exactly
\* the ceiling, as a value.
C12_Saturates ==
    /\ iter <= BISECTION_ITERATIONS
    /\ bpc = "done" =>
          /\ outcome = "returned"
          /\ net_annual > 0 => (iter = BISECTION_ITERATIONS /\ Len(probes) = iter)
          /\ net_annual <= 0 => (iter = 0 /\ result.value = 0)
          /\ net_annual > CeilingNet => result.value = GROSS_CEILING

\* C12 witness: 1500000 pounds net, more than 2000000 gross nets under the
\* base cutoffs; low has moved in all 50 iterations, the ceiling is returned
C12_Witness ==
    /\ bpc = "done" /\ net_annual = 150000000 /\ net_annual > CeilingNet
    /\ pa = BASE_PERSONAL_ALLOWANCE
    /\ iter = BISECTION_ITERATIONS
    /\ low > 0 /\ low < GROSS_CEILING
    /\ result.value = GROSS_CEILING

\* the sum of f[1] .. f[n]
RECURSIVE SumTo(_, _)
SumTo(f, n) == IF n = 0 THEN 0 ELSE f[n] + SumTo(f, n - 1)

\* C13: simulate_average_simulation with N >= 1 returns, for every period
\* i of the years * 12, the sum over all N runs of the run's portfolio value
\* (withdrawal) of period i divided by N, retired or not.
C13_NaiveAverage ==
    (op = "simulate_average_simulation" /\ pc = "done" /\ p.num_simulations >= 1
       /\ p.years >= 0) =>
        /\ outcome = "returned"
        /\ result.kind = "average"
        /\ Len(runs) = p.num_simulations
        /\ Len(result.avg_portfolio) = p.years * 12
        /\ Len(result.avg_withdrawal) = p.years * 12
        /\ \A i \in 1 .. p.years * 12 :
              /\ result.avg_portfolio[i] =
                     Divide(SumTo([k \in 1 .. Len(runs) |-> runs[k].portfolio_values[i]],
                                  Len(runs)),
                            p.num_simulations)
              /\ result.avg_withdrawal[i] =
                     Divide(SumTo([k \in 1 .. Len(runs) |-> runs[k].withdrawal_values[i]],
                                  Len(runs)),
                            p.num_simulations)

\* C13 witness: the average of two runs, in a period in which one has
\* retired and withdraws and the other is still accumulating
C13_Witness ==
    /\ op = "simulate_average_simulation" /\ pc = "done" /\ p.num_simulations = 2
    /\ Len(runs) = 2
    /\ \E i \in 1 .. p.years * 12 :
          /\ runs[1].withdrawal_values[i] > 0
          /\ runs[2].start_withdrawal_date # None
          /\ runs[2].start_withdrawal_date[1] > p.start_date + (i - 1)
          /\ runs[2].withdrawal_values[i] = 0
          /\ result.avg_withdrawal[i] = runs[1].withdrawal_values[i] \div 2
          /\ runs[1].portfolio_values[i] # runs[2].portfolio_values[i]

\* the 5-year block of the i-th recorded period (period i - 1)
Block(i) == (i - 1) \div 60

BaseCutoffs ==
    <<BASE_PERSONAL_ALLOWANCE, BASE_BASIC_RATE_LIMIT, BASE_HIGHER_RATE_LIMIT>>

\* C14: the cutoffs of a period are the base cutoffs times a factor that is
\* the same for all periods of one 5-year block (months 60k .. 60k+59), is 1
\* in the first block, is multiplied by (1 + annual_inflation_rate)^5 from a
\* block to the next, and never decreases when inflation >= 0.  The period
\* just simulated (j) is compared with every period of the run so far (i).
C14_BracketReindexing ==
    \A j \in {Len(brackets_used)} \ {0}, i \in 1 .. Len(brackets_used) :
        LET bi == brackets_used[i]
            bj == brackets_used[j]
        IN  /\ bi.cutoffs = [c \in 1 .. 3 |-> MulRate(BaseCutoffs[c], bi.factor)]
            /\ Block(i) = 0 => (bi.factor = RATE_DEN /\ bi.cutoffs = BaseCutoffs)
            /\ Block(i) = Block(j) => bi = bj
            /\ Block(j) = Block(i) + 1 =>
                   bj.factor = MulRate(bi.factor,
                                       PowRate(RATE_DEN + p.annual_inflation_rate, 5))
            /\ (i <= j /\ p.annual_inflation_rate >= 0) =>
                   /\ bi.factor <= bj.factor
                   /\ \A c \in 1 .. 3 : bi.cutoffs[c] <= bj.cutoffs[c]

\* C14 witness: a run past its 60th period under 4.8% inflation: the last
\* period of the first block has the base cutoffs, the next one higher ones
C14_Witness ==
    /\ Len(brackets_used) >= 62 /\ p.annual_inflation_rate = 480
    /\ brackets_used[60].cutoffs = BaseCutoffs
    /\ brackets_used[61].cutoffs[1] > BASE_PERSONAL_ALLOWANCE
    /\ brackets_used[61] = brackets_used[62]

\* the required monthly gross withdrawal of the i-th recorded period
NeededInPeriod(i) ==
    GrossNeededTable[<<p.target_annual_living_cost, p.annual_inflation_rate,
                       (i - 1) \div 12>>]

\* a run with retirement date swd is Retired in its i-th recorded period
RetiredInPeriod(swd, i) == swd # None /\ swd[1] <= p.start_date + (i - 1)

\* C15: in every period in which the run is Retired the amount withdrawn is
\* min(needed, balance after the period's return); a balance that is positive
\* but below needed is withdrawn whole.
C15_WithdrawsMinOfNeededAndBalance ==
    \A i \in 1 .. Len(withdrawal_values) :
        (RetiredInPeriod(start_withdrawal_date, i) /\ pre_withdrawal_values[i] >= 0) =>
            withdrawal_values[i] = Min(NeededInPeriod(i), pre_withdrawal_values[i])

\* C16: in the period in which the run goes from Accumulating to Retired
\* the withdrawal step is skipped: the withdrawal recorded for it is 0.
C16_NoWithdrawalInTransitionPeriod ==
    \A i \in 1 .. Len(withdrawal_values) :
        start_withdrawal_date = Some(p.start_date + (i - 1)) =>
            withdrawal_values[i] = 0

\* C17: a period that ends with the run still Accumulating has added the
\* current deposit to the portfolio (before the return) and records the
\* withdrawal 0; a period in which the run is Retired, the transition period
\* included, adds no deposit and leaves the deposit amount unchanged.
C17_StateDependentActions ==
    [][PeriodStep =>
         /\ ~withdrawing' =>
                /\ Last(pre_withdrawal_values') =
                       MulRate(portfolio_value + current_monthly_deposit,
                               RATE_DEN + Last(samples'))
                /\ Last(withdrawal_values') = 0
         /\ withdrawing' =>
                /\ Last(pre_withdrawal_values') =
                       MulRate(portfolio_value, RATE_DEN + Last(samples'))
                /\ current_monthly_deposit' = current_monthly_deposit]_vars

\* C17 witness: a run that accumulated for two periods or more, its deposit
\* amount grown, then retired and has simulated a period after the transition
C17_Witness ==
    /\ pc = "loop" /\ withdrawing
    /\ start_withdrawal_date[1] > p.start_date + 1
    /\ p.start_date + (Len(withdrawal_values) - 1) > start_withdrawal_date[1]
    /\ current_monthly_deposit > p.monthly_deposit
    /\ pre_withdrawal_values[1] > p.initial_deposit + p.monthly_deposit

\* monthly_deposit grown k times by deposit_growth_rate
RECURSIVE GrownDeposit(_)
GrownDeposit(k) ==
    IF k <= 0 THEN p.monthly_deposit
    ELSE MulRate(GrownDeposit(k - 1), RATE_DEN + p.deposit_growth_rate)

\* C18: while Accumulating the deposit amount is grown after each period's
\* deposit: the amount added in period k is monthly_deposit *
\* (1 + deposit_growth_rate)^k, so the amounts of periods 0 and 1 differ by
\* the factor (1 + deposit_growth_rate).
C18_DepositGrowsEveryPeriod ==
    [][(PeriodStep /\ ~withdrawing') =>
         /\ Last(pre_withdrawal_values') =
                MulRate(portfolio_value + GrownDeposit(m), RATE_DEN + Last(samples'))
         /\ current_monthly_deposit' = GrownDeposit(m + 1)]_vars

\* C19: the steps of a period run in the order deposit, return, cost and
\* brackets, retirement test, withdrawal: an Accumulating run retires in
\* period m exactly when its portfolio after period m's deposit and period
\* m's return covers the required monthly gross withdrawal of period m.
C19_TestAfterDepositAndReturn ==
    [][(PeriodStep /\ ~withdrawing) =>
         (withdrawing' <=>
             MulRate(portfolio_value + current_monthly_deposit,
                     RATE_DEN + Last(samples')) >= NeededInPeriod(m + 1))]_vars

\* the portfolio value the retirement test of the i-th period reads
TestedValue(i) == IF i = 1 THEN p.initial_deposit ELSE portfolio_values[i - 1]

\* C20: an Accumulating run retires in period m exactly when its portfolio
\* covers the required monthly gross withdrawal of period m (the required
\* gross for the inflation-adjusted annual cost under the period's cutoffs,
\* divided by 12); the retirement date is the date of the first such period,
\* start_date + m.
C20_RetirementTrigger ==
    /\ [][(PeriodStep /\ ~withdrawing) =>
             /\ withdrawing' <=> portfolio_value >= NeededInPeriod(m + 1)
             /\ withdrawing' => start_withdrawal_date' = Some(p.start_date + m)]_vars
    /\ [](pc = "loop" =>
             \A i \in 1 .. Len(portfolio_values) :
                 (TestedValue(i) >= NeededInPeriod(i)) =>
                     /\ start_withdrawal_date # None
                     /\ start_withdrawal_date[1] <= p.start_date + (i - 1))

\* C20 witness: a run that failed the test in periods 0 and 1 at least and
\* retired in the first period whose test it passed
C20_Witness ==
    /\ pc = "loop" /\ withdrawing
    /\ \E i \in 3 .. Len(portfolio_values) :
          /\ start_withdrawal_date = Some(p.start_date + (i - 1))
          /\ TestedValue(i) >= NeededInPeriod(i)
          /\ \A j \in 1 .. i - 1 : TestedValue(j) < NeededInPeriod(j)

\* C21: the living cost of a period is the initial target inflated once per
\* elapsed period: it is the target itself in period 0 and, with inflation
\* > 0 (and a target > 0), strictly higher in every period than in the one
\* before, also between two months of one simulation year.
C21_LivingCostGrowsEveryPeriod ==
    /\ Len(living_costs) >= 1 => living_costs[1] = p.target_annual_living_cost
    /\ (p.annual_inflation_rate > 0 /\ p.target_annual_living_cost > 0) =>
           \A i \in {Len(living_costs)} \ {0, 1} :
               living_costs[i] > living_costs[i - 1]

\* C22: in every Retired period the withdrawal is exactly the required
\* monthly gross amount when the portfolio after the return is at least that
\* amount, and exactly 0 when it is not, never a part of it; this holds in
\* every period on its own, so a run that withdrew 0 withdraws the full
\* amount again once its portfolio after the return suffices.
C22_AllOrNothing ==
    \A i \in {Len(withdrawal_values)} \ {0} :
        RetiredInPeriod(start_withdrawal_date, i) =>
            /\ pre_withdrawal_values[i] >= NeededInPeriod(i) =>
                   withdrawal_values[i] = NeededInPeriod(i)
            /\ pre_withdrawal_values[i] < NeededInPeriod(i) =>
                   withdrawal_values[i] = 0

\* C22 witness: a Retired run that withdrew 0 in a period, its balance
\* positive but short, and the full amount in a later period
C22_Witness ==
    /\ pc = "loop" /\ withdrawing
    /\ \E i, j \in 1 .. Len(withdrawal_values) :
          /\ i < j
          /\ RetiredInPeriod(start_withdrawal_date, i)
          /\ withdrawal_values[i] = 0
          /\ pre_withdrawal_values[i] > 0
          /\ withdrawal_values[j] = NeededInPeriod(j)
          /\ withdrawal_values[j] > 0

\* C23: the withdrawal step never turns a non-negative balance negative;
\* so with initial deposit >= 0, deposits >= 0 and every return sample
\* >= -100%, every recorded portfolio value is >= 0.
C23_BalanceStaysNonNegative ==
    /\ \A i \in {Len(portfolio_values)} \ {0} :
          pre_withdrawal_values[i] >= 0 => portfolio_values[i] >= 0
    /\ (/\ p.initial_deposit >= 0 /\ p.monthly_deposit >= 0
        /\ p.deposit_growth_rate >= 0 - RATE_DEN
        /\ \A i \in 1 .. Len(samples) : samples[i] >= 0 - RATE_DEN) =>
           \A i \in 1 .. Len(portfolio_values) : portfolio_values[i] >= 0

\* C23 witness: a run that lost money in a month (less than all of it) and
\* later withdrew most of its balance, a smaller rest staying behind
C23_Witness ==
    /\ pc = "loop"
    /\ \A i \in 1 .. Len(samples) : samples[i] >= 0 - RATE_DEN
    /\ \E i, j \in 1 .. Len(portfolio_values) :
          /\ i < j
          /\ samples[i] < 0
          /\ withdrawal_values[j] > 0
          /\ portfolio_values[j] >= 0
          /\ portfolio_values[j] < withdrawal_values[j]

\* the inputs C24 is about: a net target > 0 that the ceiling gross can net,
\* under ordered cutoffs
BisectionApplies ==
    /\ net_annual > 0 /\ net_annual <= CeilingNet
    /\ 0 <= pa /\ pa <= brt /\ brt <= hrt

\* C24: for such inputs, after every iteration 0 <= low <= high <= ceiling
\* and net(low) < net target <= net(high), and an iteration halves the width
\* high - low (to the unit of the representation, one half rounded down or
\* up); hence the gross returned nets the target or more.  For a net target
\* <= 0 the result is 0.
C24_BisectionInvariant ==
    /\ []((bpc \in {"loop", "done"} /\ BisectionApplies) =>
             /\ 0 <= low /\ low <= high /\ high <= GROSS_CEILING
             /\ calc_net_annual(low, pa, brt, hrt) < net_annual
             /\ net_annual <= calc_net_annual(high, pa, brt, hrt)
             /\ bpc = "done" =>
                    calc_net_annual(result.value, pa, brt, hrt) >= net_annual)
    /\ []((bpc = "done" /\ net_annual <= 0) => result.value = 0)
    /\ [][(bpc = "loop" /\ iter' = iter + 1 /\ BisectionApplies) =>
             LET width == high - low
             IN  high' - low' \in {width \div 2, width - width \div 2}]_vars

\* C24 witness: the search for 40000 pounds net under the base cutoffs after
\* its 50 iterations: low and high are one unit apart around the answer
C24_Witness ==
    /\ bpc = "done" /\ iter = BISECTION_ITERATIONS /\ BisectionApplies
    /\ net_annual = 4000000 /\ pa = BASE_PERSONAL_ALLOWANCE
    /\ 0 < low /\ high - low = 1 /\ high < GROSS_CEILING
    /\ calc_net_annual(low, pa, brt, hrt) < net_annual
    /\ calc_net_annual(high, pa, brt, hrt) >= net_annual
    /\ result.value = high

\* values of annual_withdrawal_rate other than the invocation's
OtherWithdrawalRates == {0, 1000}

\* the fields simulate_investment returns, of a record of runs
ReturnedFields(r) ==
    [dates_list |-> r.dates_list, portfolio_values |-> r.portfolio_values,
     withdrawal_values |-> r.withdrawal_values,
     start_withdrawal_date |-> r.start_withdrawal_date,
     total_withdrawn |-> r.total_withdrawn]

\* C25: annual_withdrawal_rate has no influence: a run of the invocation and
\* a run on the same samples whose arguments differ only in
\* annual_withdrawal_rate return the same dates, portfolio values,
\* withdrawals, retirement date and total withdrawn.  (Checked for the run
\* that has just returned.)
C25_WithdrawalRateIgnored ==
    (pc # "loop" /\ Len(runs) >= 1) =>
        \A rate \in OtherWithdrawalRates :
            simulate_investment([p EXCEPT !.annual_withdrawal_rate = rate],
                                Last(runs).samples)
                = ReturnedFields(Last(runs))

\* C25 witness: a twelve-period run with a sample off the mean that retired
\* and withdrew, and its twin under a withdrawal rate of 10% instead of 4%
C25_Witness ==
    /\ pc = "done" /\ Len(runs) >= 1
    /\ p.annual_withdrawal_rate = 400
    /\ Len(Last(runs).samples) = 12
    /\ \E i \in 1 .. 12 : Last(runs).samples[i] # monthly_mean_return
    /\ Last(runs).total_withdrawn > 0
    /\ simulate_investment([p EXCEPT !.annual_withdrawal_rate = 1000],
                           Last(runs).samples).total_withdrawn
           = Last(runs).total_withdrawn

=============================================================================
